---- MODULE Spec2Model ----
(***************************************************************************)
(* Model of palf's LogEntryHeader (src/logservice/palf/log_entry_header.cpp) *)
(* : the fixed-size header of a log entry, its parity guard, its payload   *)
(* checksum and its serialize / deserialize contract.                      *)
(*                                                                         *)
(* Integer representation.  int16_t and int32_t fields are TLA+ integers   *)
(* in their two's complement range.  64-bit values (data_len, the scn's    *)
(* val_, data_checksum_, flag_) are tuples of 8 bytes, least significant   *)
(* byte first: v[k] = (val >> 8*(k-1)) & 0xff.  The wire format is big     *)
(* endian, so the encoders and decoders do real work on both kinds.        *)
(***************************************************************************)
EXTENDS Integers, Sequences, FiniteSets, TLC

VARIABLES hdr, gen, buf, pos, op, tgt, arg, ret, pre, prepos, src, flips

vars == <<hdr, gen, buf, pos, op, tgt, arg, ret, pre, prepos, src, flips>>

(***************************************************************************)
(* Bounds of the model.                                                    *)
(***************************************************************************)
\* largest buffer capacity the caller allocates
MaxCap == 33
\* largest position the caller starts at
MaxPos == 1
\* largest number of distinct bits corrupted in a serialized header
MaxFlips == 3

(***************************************************************************)
(* 64-bit values as 8 bytes, least significant first.                      *)
(***************************************************************************)
Zero64 == <<0, 0, 0, 0, 0, 0, 0, 0>>

Ones64 == <<255, 255, 255, 255, 255, 255, 255, 255>>

\* a small non-negative number n < 256 as a 64-bit value
Small64(n) == <<n, 0, 0, 0, 0, 0, 0, 0>>

\* val <= 0 for an int64_t
LeZero64(v) == v[8] >= 128 \/ v = Zero64

\* int64_t -> int32_t narrowing (log_size_ = data_len): the low 32 bits, signed
Narrow32(v) ==
  (IF v[4] >= 128 THEN v[4] - 256 ELSE v[4]) * 16777216
    + v[3] * 65536 + v[2] * 256 + v[1]

\* flag & ~(0x1)
ClearBit0(v) == [v EXCEPT ![1] = v[1] - (v[1] % 2)]

\* flag | 0x1
SetBit0(v) == [v EXCEPT ![1] = v[1] - (v[1] % 2) + 1]

\* flag & 0x1
Bit0(v) == v[1] % 2

(***************************************************************************)
(* Return codes.                                                           *)
(***************************************************************************)
OB_SUCCESS == "OB_SUCCESS"

OB_INVALID_ARGUMENT == "OB_INVALID_ARGUMENT"

OB_BUF_NOT_ENOUGH == "OB_BUF_NOT_ENOUGH"

OB_INVALID_DATA == "OB_INVALID_DATA"

\* the null pointer: a buffer value that is no sequence of bytes
NULL == <<-1>>

(***************************************************************************)
(* Collaborators declared outside log_entry_header.cpp.                    *)
(***************************************************************************)
\* LogEntryHeader::MAGIC, 'LH'
MAGIC == 19528

LOG_ENTRY_HEADER_VERSION == 1

\* the value of a default constructed or reset SCN
OB_INVALID_SCN_VAL == Ones64

SCN_reset == OB_INVALID_SCN_VAL

SCN_is_valid(scn) == scn # OB_INVALID_SCN_VAL

get_val_for_logservice(scn) == scn

\* parity of one byte: TRUE iff an odd number of its bits are set
RECURSIVE ByteParity(_)
ByteParity(b) == IF b = 0 THEN FALSE ELSE (b % 2 = 1) # ByteParity(b \div 2)

\* parity_check(uint16_t) on the raw bits of an int16_t
parity_check16(v) ==
  LET u == IF v < 0 THEN v + 65536 ELSE v
  IN  ByteParity(u \div 256) # ByteParity(u % 256)

\* parity_check(uint32_t) on the raw bits of an int32_t
parity_check32(v) ==
  (ByteParity((v \div 16777216) % 256) # ByteParity((v \div 65536) % 256))
    # (ByteParity((v \div 256) % 256) # ByteParity(v % 256))

RECURSIVE Parity64From(_, _)
Parity64From(v, k) ==
  IF k > 8 THEN FALSE ELSE ByteParity(v[k]) # Parity64From(v, k + 1)

\* parity_check(uint64_t)
parity_check64(v) == Parity64From(v, 1)

\* common::ob_crc64(buf, len): a deterministic 64-bit checksum of the len
\* bytes at buf.  A payload buffer is given by its leading bytes; bytes past
\* them, up to len, are zero.
RECURSIVE CrcFold(_, _)
CrcFold(acc, s) ==
  IF s = <<>> THEN acc
  ELSE CrcFold((acc * 31 + Head(s) + 1) % 65536, Tail(s))

ob_crc64(data, len) ==
  LET c == CrcFold(0, data)
  IN  <<c % 256, c \div 256, (len[1] + 7 * len[4]) % 256, len[5], 0, 0, 0, c % 128>>

\* serialization::encode_i16 / encode_i32 / encode_i64: big endian bytes
BE16(v) ==
  LET u == IF v < 0 THEN v + 65536 ELSE v
  IN  <<u \div 256, u % 256>>

BE32(v) ==
  <<(v \div 16777216) % 256, (v \div 65536) % 256, (v \div 256) % 256, v % 256>>

BE64(v) == <<v[8], v[7], v[6], v[5], v[4], v[3], v[2], v[1]>>

\* st = [ok, buf, pos]: one encode step of a short-circuit chain; the bytes
\* are written at pos when buf_len - pos has room for them, else the step fails
EncodeBytes(st, buf_len, bytes) ==
  IF ~st.ok THEN st
  ELSE IF st.buf = NULL \/ buf_len - st.pos < Len(bytes)
    THEN [st EXCEPT !.ok = FALSE]
    ELSE [ok |-> TRUE,
          buf |-> [k \in 1..Len(st.buf) |->
                     IF k > st.pos /\ k <= st.pos + Len(bytes)
                       THEN bytes[k - st.pos] ELSE st.buf[k]],
          pos |-> st.pos + Len(bytes)]

encode_i16(st, buf_len, v) == EncodeBytes(st, buf_len, BE16(v))

encode_i32(st, buf_len, v) == EncodeBytes(st, buf_len, BE32(v))

encode_i64(st, buf_len, v) == EncodeBytes(st, buf_len, BE64(v))

\* SCN::fixed_serialize
fixed_serialize(st, buf_len, scn) == encode_i64(st, buf_len, get_val_for_logservice(scn))

\* serialization::decode_*: the value of n big endian bytes at pos
FromBE16(b) ==
  LET u == b[1] * 256 + b[2]
  IN  IF u >= 32768 THEN u - 65536 ELSE u

FromBE32(b) ==
  (IF b[1] >= 128 THEN b[1] - 256 ELSE b[1]) * 16777216
    + b[2] * 65536 + b[3] * 256 + b[4]

FromBE64(b) == <<b[8], b[7], b[6], b[5], b[4], b[3], b[2], b[1]>>

\* can n bytes be decoded from b (data_len bytes long) at position p
CanDecode(b, data_len, p, n) == b # NULL /\ data_len - p >= n

BytesAt(b, p, n) == [k \in 1..n |-> b[p + k]]

encoded_length_i16 == 2

encoded_length_i32 == 4

encoded_length_i64 == 8

get_fixed_serialize_size == 8

(***************************************************************************)
(* LogEntryHeader.                                                         *)
(***************************************************************************)
\* LogEntryHeader::LogEntryHeader()
LogEntryHeader ==
  [magic_ |-> 0, version_ |-> 0, log_size_ |-> 0, scn_ |-> OB_INVALID_SCN_VAL,
   data_checksum_ |-> Zero64, flag_ |-> Zero64]

\* LogEntryHeader::reset()
reset(h) ==
  [magic_ |-> 0, version_ |-> 0, data_checksum_ |-> Zero64, log_size_ |-> -1,
   scn_ |-> SCN_reset, flag_ |-> Zero64]

\* LogEntryHeader::operator=
assign(h, header) ==
  [magic_ |-> header.magic_, version_ |-> header.version_,
   log_size_ |-> header.log_size_, scn_ |-> header.scn_,
   data_checksum_ |-> header.data_checksum_, flag_ |-> header.flag_]

\* LogEntryHeader::is_valid()
is_valid(h) ==
  h.magic_ = MAGIC /\ h.log_size_ > 0 /\ SCN_is_valid(h.scn_)

\* get_header_parity_check_res_() that leaves flag_ out of the parity
parity_without_flag(h) ==
  LET r1 == parity_check16(h.magic_)
      r2 == r1 # parity_check16(h.version_)
      r3 == r2 # parity_check32(h.log_size_)
      r4 == r3 # parity_check64(get_val_for_logservice(h.scn_))
  IN  r4 # parity_check64(h.data_checksum_)

\* LogEntryHeader::get_header_parity_check_res_()
get_header_parity_check_res_(h) ==
  LET r1 == parity_check16(h.magic_)
      r2 == r1 # parity_check16(h.version_)
      r3 == r2 # parity_check32(h.log_size_)
      r4 == r3 # parity_check64(get_val_for_logservice(h.scn_))
      r5 == r4 # parity_check64(h.data_checksum_)
      tmp_flag == ClearBit0(h.flag_)
  IN  r5 # parity_check64(tmp_flag)

\* LogEntryHeader::update_header_checksum_()
update_header_checksum_(h) ==
  IF get_header_parity_check_res_(h)
    THEN [h EXCEPT !.flag_ = SetBit0(h.flag_)]
    ELSE h

\* generate_header() that assigns magic_ and version_ before it looks at its
\* arguments
generate_header_assign_first(h, log_data, data_len, scn) ==
  LET h0 == [h EXCEPT !.magic_ = MAGIC, !.version_ = LOG_ENTRY_HEADER_VERSION]
  IN  IF log_data = NULL \/ LeZero64(data_len) \/ ~SCN_is_valid(scn)
        THEN [ret |-> OB_INVALID_ARGUMENT, hdr |-> h0]
        ELSE LET h1 == [h0 EXCEPT !.log_size_ = Narrow32(data_len),
                                  !.scn_ = scn,
                                  !.data_checksum_ = ob_crc64(log_data, data_len)]
             IN  [ret |-> OB_SUCCESS, hdr |-> update_header_checksum_(h1)]

\* LogEntryHeader::generate_header(): [ret, hdr]
generate_header(h, log_data, data_len, scn) ==
  IF log_data = NULL \/ LeZero64(data_len) \/ ~SCN_is_valid(scn)
    THEN [ret |-> OB_INVALID_ARGUMENT, hdr |-> h]
    ELSE LET h1 == [h EXCEPT !.magic_ = MAGIC,
                             !.version_ = LOG_ENTRY_HEADER_VERSION,
                             !.log_size_ = Narrow32(data_len),
                             !.scn_ = scn,
                             !.data_checksum_ = ob_crc64(log_data, data_len)]
         IN  [ret |-> OB_SUCCESS, hdr |-> update_header_checksum_(h1)]

\* LogEntryHeader::check_header_checksum_()
check_header_checksum_(h) ==
  LET header_checksum == IF get_header_parity_check_res_(h) THEN 1 ELSE 0
      saved_header_checksum == Bit0(h.flag_)
  IN  header_checksum = saved_header_checksum

\* LogEntryHeader::check_header_integrity()
check_header_integrity(h) == is_valid(h) /\ check_header_checksum_(h)

\* check_integrity() without the check_header_checksum_() branch
check_integrity_noparity(h, b, data_len) ==
  IF b = NULL \/ LeZero64(data_len) THEN FALSE
  ELSE IF MAGIC # h.magic_ THEN FALSE
  ELSE h.data_checksum_ = ob_crc64(b, data_len)

\* check_integrity() without the magic branch
check_integrity_nomagic(h, b, data_len) ==
  IF b = NULL \/ LeZero64(data_len) THEN FALSE
  ELSE IF ~check_header_checksum_(h) THEN FALSE
  ELSE h.data_checksum_ = ob_crc64(b, data_len)

\* LogEntryHeader::check_integrity()
check_integrity(h, b, data_len) ==
  IF b = NULL \/ LeZero64(data_len) THEN FALSE
  ELSE IF MAGIC # h.magic_ THEN FALSE
  ELSE IF ~check_header_checksum_(h) THEN FALSE
  ELSE h.data_checksum_ = ob_crc64(b, data_len)

\* serialize() that encodes through the caller's pos instead of new_pos
serialize_commit_pos(h, b, buf_len, p) ==
  IF b = NULL \/ buf_len <= 0
    THEN [ret |-> OB_INVALID_ARGUMENT, buf |-> b, pos |-> p]
    ELSE LET s0 == [ok |-> TRUE, buf |-> b, pos |-> p]
             s1 == encode_i16(s0, buf_len, h.magic_)
             s2 == encode_i16(s1, buf_len, h.version_)
             s3 == encode_i32(s2, buf_len, h.log_size_)
             s4 == fixed_serialize(s3, buf_len, h.scn_)
             s5 == encode_i64(s4, buf_len, h.data_checksum_)
             s6 == encode_i64(s5, buf_len, h.flag_)
         IN  [ret |-> IF s6.ok THEN OB_SUCCESS ELSE OB_BUF_NOT_ENOUGH,
              buf |-> s6.buf, pos |-> s6.pos]

\* LogEntryHeader::serialize(buf, buf_len, pos): [ret, buf, pos]
serialize(h, b, buf_len, p) ==
  IF b = NULL \/ buf_len <= 0
    THEN [ret |-> OB_INVALID_ARGUMENT, buf |-> b, pos |-> p]
    ELSE LET s0 == [ok |-> TRUE, buf |-> b, pos |-> p]
             s1 == encode_i16(s0, buf_len, h.magic_)
             s2 == encode_i16(s1, buf_len, h.version_)
             s3 == encode_i32(s2, buf_len, h.log_size_)
             s4 == fixed_serialize(s3, buf_len, h.scn_)
             s5 == encode_i64(s4, buf_len, h.data_checksum_)
             s6 == encode_i64(s5, buf_len, h.flag_)
         IN  IF ~s6.ok
               THEN [ret |-> OB_BUF_NOT_ENOUGH, buf |-> s6.buf, pos |-> p]
               ELSE [ret |-> OB_SUCCESS, buf |-> s6.buf, pos |-> s6.pos]

\* st = [ok, hdr, pos]: one decode step of the short-circuit chain
decode_i16(st, b, data_len, f) ==
  IF ~st.ok THEN st
  ELSE IF ~CanDecode(b, data_len, st.pos, 2) THEN [st EXCEPT !.ok = FALSE]
  ELSE [ok |-> TRUE, pos |-> st.pos + 2,
        hdr |-> [st.hdr EXCEPT ![f] = FromBE16(BytesAt(b, st.pos, 2))]]

decode_i32(st, b, data_len, f) ==
  IF ~st.ok THEN st
  ELSE IF ~CanDecode(b, data_len, st.pos, 4) THEN [st EXCEPT !.ok = FALSE]
  ELSE [ok |-> TRUE, pos |-> st.pos + 4,
        hdr |-> [st.hdr EXCEPT ![f] = FromBE32(BytesAt(b, st.pos, 4))]]

decode_i64(st, b, data_len, f) ==
  IF ~st.ok THEN st
  ELSE IF ~CanDecode(b, data_len, st.pos, 8) THEN [st EXCEPT !.ok = FALSE]
  ELSE [ok |-> TRUE, pos |-> st.pos + 8,
        hdr |-> [st.hdr EXCEPT ![f] = FromBE64(BytesAt(b, st.pos, 8))]]

\* SCN::fixed_deserialize
fixed_deserialize(st, b, data_len, f) == decode_i64(st, b, data_len, f)

\* deserialize() that checks the header's integrity before it checks that
\* every field was decoded
deserialize_validate_first(h, b, data_len, p) ==
  IF b = NULL \/ data_len <= 0
    THEN [ret |-> OB_INVALID_ARGUMENT, hdr |-> h, pos |-> p]
    ELSE LET s0 == [ok |-> TRUE, hdr |-> h, pos |-> p]
             s1 == decode_i16(s0, b, data_len, "magic_")
             s2 == decode_i16(s1, b, data_len, "version_")
             s3 == decode_i32(s2, b, data_len, "log_size_")
             s4 == fixed_deserialize(s3, b, data_len, "scn_")
             s5 == decode_i64(s4, b, data_len, "data_checksum_")
             s6 == decode_i64(s5, b, data_len, "flag_")
         IN  IF ~check_header_integrity(s6.hdr)
               THEN [ret |-> OB_INVALID_DATA, hdr |-> s6.hdr, pos |-> p]
             ELSE IF ~s6.ok
               THEN [ret |-> OB_BUF_NOT_ENOUGH, hdr |-> s6.hdr, pos |-> p]
               ELSE [ret |-> OB_SUCCESS, hdr |-> s6.hdr, pos |-> s6.pos]

\* LogEntryHeader::deserialize(buf, data_len, pos): [ret, hdr, pos]
deserialize(h, b, data_len, p) ==
  IF b = NULL \/ data_len <= 0
    THEN [ret |-> OB_INVALID_ARGUMENT, hdr |-> h, pos |-> p]
    ELSE LET s0 == [ok |-> TRUE, hdr |-> h, pos |-> p]
             s1 == decode_i16(s0, b, data_len, "magic_")
             s2 == decode_i16(s1, b, data_len, "version_")
             s3 == decode_i32(s2, b, data_len, "log_size_")
             s4 == fixed_deserialize(s3, b, data_len, "scn_")
             s5 == decode_i64(s4, b, data_len, "data_checksum_")
             s6 == decode_i64(s5, b, data_len, "flag_")
         IN  IF ~s6.ok
               THEN [ret |-> OB_BUF_NOT_ENOUGH, hdr |-> s6.hdr, pos |-> p]
             ELSE IF ~check_header_integrity(s6.hdr)
               THEN [ret |-> OB_INVALID_DATA, hdr |-> s6.hdr, pos |-> p]
               ELSE [ret |-> OB_SUCCESS, hdr |-> s6.hdr, pos |-> s6.pos]

\* LogEntryHeader::get_serialize_size()
get_serialize_size(h) ==
  encoded_length_i16 + encoded_length_i16 + encoded_length_i32
    + get_fixed_serialize_size + encoded_length_i64 + encoded_length_i64

(***************************************************************************)
(* Inputs of the operations.                                               *)
(***************************************************************************)
Hdrs == {1, 2}

P1 == [log_data |-> <<1>>, data_len |-> Small64(1)]

P2 == [log_data |-> <<2, 1>>, data_len |-> Small64(2)]

P3 == [log_data |-> <<1, 2>>, data_len |-> Small64(2)]

\* payloads generate_header accepts whose length fits log_size_
PayloadsOk == {P1, P2, P3}

\* payloads generate_header rejects: null, empty, negative length
PayloadsBad ==
  { [log_data |-> NULL, data_len |-> Small64(1)],
    [log_data |-> <<1>>, data_len |-> Zero64],
    [log_data |-> <<1>>, data_len |-> Ones64] }

\* payloads of 2^31, 2^32 and 2^32 + 1 bytes
PayloadsHuge ==
  { [log_data |-> <<1>>, data_len |-> <<0, 0, 0, 128, 0, 0, 0, 0>>],
    [log_data |-> <<1>>, data_len |-> <<0, 0, 0, 0, 1, 0, 0, 0>>],
    [log_data |-> <<1>>, data_len |-> <<1, 0, 0, 0, 1, 0, 0, 0>>] }

Payloads == PayloadsOk \cup PayloadsBad

SCNsOk == {Small64(1), Small64(3)}

\* the argument pairs of generate_header: accepted ones, and one rejected
\* pair for each way of being rejected
GenInputs ==
  (PayloadsOk \X SCNsOk) \cup (PayloadsBad \X {Small64(1)})
    \cup {<<P1, OB_INVALID_SCN_VAL>>}

GenInputsHuge == PayloadsHuge \X {Small64(1)}

NoGen == [none |-> TRUE]

NoHdr == [none |-> TRUE]

NoSrc == [none |-> TRUE]

NoArg == [none |-> TRUE]

\* a caller's buffer of MaxCap bytes, every byte equal to fill
NewBuf(fill) == [k \in 1..MaxCap |-> fill]

\* the buffers a caller hands to serialize
OutBufs == {NewBuf(0), NewBuf(255), NULL}

\* headers written by another writer: reserved flag bits in use; a zero
\* log_size_; an unset scn; the magic of another record type ('GR').  Each
\* carries the parity bit that fits it.
ForeignHeaders ==
  LET base == [magic_ |-> MAGIC, version_ |-> LOG_ENTRY_HEADER_VERSION,
               log_size_ |-> 1, scn_ |-> Small64(1),
               data_checksum_ |-> ob_crc64(<<1>>, Small64(1)), flag_ |-> Zero64]
  IN  { update_header_checksum_([base EXCEPT !.flag_ = Small64(2)]),
        update_header_checksum_([base EXCEPT !.log_size_ = 0]),
        update_header_checksum_([base EXCEPT !.scn_ = OB_INVALID_SCN_VAL]),
        update_header_checksum_([base EXCEPT !.magic_ = 18258]) }

\* the bytes of such a header as they arrive from storage
WireImages == { serialize(f, NewBuf(0), MaxCap, 0).buf : f \in ForeignHeaders }

\* bit k (1..256) of the 32 header bytes that start at position at, flipped
FlipByte(b, j) ==
  IF (b \div (2 ^ j)) % 2 = 1 THEN b - 2 ^ j ELSE b + 2 ^ j

FlipAt(b, at, k) ==
  [b EXCEPT ![at + ((k - 1) \div 8) + 1] = FlipByte(@, (k - 1) % 8)]

HeaderBits == 1..(8 * get_serialize_size(LogEntryHeader))

\* bits that a second and later corruption may hit: the lowest bit of each
\* field's last byte, and the sign bit of log_size_
ProbeBits == {9, 25, 40, 57, 121, 185, 249}

Lens == 0..MaxCap

Positions == 0..MaxPos

(***************************************************************************)
(* The state machine: two header objects, one caller buffer.  op, tgt,     *)
(* arg, ret, pre and prepos record the last call: the operation, the       *)
(* header it was called on, its arguments, what it returned, and the       *)
(* header and position before it.  src is the header whose bytes a         *)
(* successful serialize left in buf, flips the bits corrupted since.       *)
(***************************************************************************)
Init ==
  /\ hdr = [i \in Hdrs |-> LogEntryHeader]
  /\ gen = [i \in Hdrs |-> NoGen]
  /\ buf = NULL
  /\ pos = 0
  /\ op = "construct"
  /\ tgt = 1
  /\ arg = NoArg
  /\ ret = OB_SUCCESS
  /\ pre = NoHdr
  /\ prepos = 0
  /\ src = NoSrc
  /\ flips = {}

\* a header object is destroyed and constructed anew
Construct(i) ==
  /\ hdr' = [hdr EXCEPT ![i] = LogEntryHeader]
  /\ gen' = [gen EXCEPT ![i] = NoGen]
  /\ op' = "construct" /\ tgt' = i /\ arg' = NoArg /\ ret' = OB_SUCCESS
  /\ pre' = NoHdr /\ prepos' = 0
  /\ UNCHANGED <<buf, pos, src, flips>>

Reset(i) ==
  /\ hdr' = [hdr EXCEPT ![i] = reset(hdr[i])]
  /\ gen' = [gen EXCEPT ![i] = NoGen]
  /\ op' = "reset" /\ tgt' = i /\ arg' = NoArg /\ ret' = OB_SUCCESS
  /\ pre' = NoHdr /\ prepos' = 0
  /\ UNCHANGED <<buf, pos, src, flips>>

Generate(i, p, scn) ==
  LET r == generate_header(hdr[i], p.log_data, p.data_len, scn)
  IN  /\ hdr' = [hdr EXCEPT ![i] = r.hdr]
      /\ gen' = IF r.ret = OB_SUCCESS
                  THEN [gen EXCEPT ![i] = [payload |-> p, scn |-> scn,
                                           fresh |-> hdr[i] = LogEntryHeader]]
                  ELSE gen
      /\ op' = "generate_header" /\ tgt' = i /\ ret' = r.ret
      /\ arg' = [payload |-> p, scn |-> scn]
      /\ pre' = IF r.ret = OB_SUCCESS THEN NoHdr ELSE hdr[i]
      /\ prepos' = 0
      /\ UNCHANGED <<buf, pos, src, flips>>

Assign(i, j) ==
  /\ i # j
  /\ hdr' = [hdr EXCEPT ![i] = assign(hdr[i], hdr[j])]
  /\ gen' = [gen EXCEPT ![i] = gen[j]]
  /\ op' = "assign" /\ tgt' = i /\ arg' = NoArg /\ ret' = OB_SUCCESS
  /\ pre' = NoHdr /\ prepos' = 0
  /\ UNCHANGED <<buf, pos, src, flips>>

CheckIntegrity(i, p) ==
  /\ ret' = check_integrity(hdr[i], p.log_data, p.data_len)
  /\ op' = "check_integrity" /\ tgt' = i /\ arg' = [payload |-> p]
  /\ pre' = hdr[i] /\ prepos' = 0
  /\ UNCHANGED <<hdr, gen, buf, pos, src, flips>>

\* the caller reads a header's bytes from storage into its buffer
Receive(img) ==
  /\ buf' = img
  /\ pos' = 0 /\ src' = NoSrc /\ flips' = {}
  /\ op' = "receive" /\ tgt' = 1 /\ arg' = NoArg /\ ret' = OB_SUCCESS
  /\ pre' = NoHdr /\ prepos' = 0
  /\ UNCHANGED <<hdr, gen>>

\* what the record of a serialize or deserialize call keeps of its length
\* and position arguments
LenArg(h, len, p) ==
  [nonpos |-> len <= 0, short |-> len - p < get_serialize_size(h)]

\* serialize into the buffer b the caller hands over
Serialize(i, b, buf_len, p) ==
  LET r == serialize(hdr[i], b, buf_len, p)
  IN  /\ buf' = r.buf
      /\ pos' = r.pos
      /\ src' = IF r.ret = OB_SUCCESS
                  THEN [hdr |-> hdr[i], gen |-> gen[i], at |-> p]
                  ELSE NoSrc
      /\ flips' = {}
      /\ op' = "serialize" /\ tgt' = i /\ arg' = LenArg(hdr[i], buf_len, p)
      /\ ret' = r.ret /\ pre' = NoHdr /\ prepos' = p
      /\ UNCHANGED <<hdr, gen>>

Deserialize(i, data_len, p) ==
  LET r == deserialize(hdr[i], buf, data_len, p)
  IN  /\ hdr' = [hdr EXCEPT ![i] = r.hdr]
      /\ gen' = [gen EXCEPT ![i] = NoGen]
      /\ pos' = r.pos
      /\ op' = "deserialize" /\ tgt' = i /\ arg' = LenArg(hdr[i], data_len, p)
      /\ ret' = r.ret /\ pre' = hdr[i] /\ prepos' = p
      /\ UNCHANGED <<buf, src, flips>>

\* one bit of the serialized header is corrupted in the buffer
FlipBit(k) ==
  /\ src # NoSrc
  /\ op \in {"serialize", "flip"}
  /\ k \notin flips
  /\ flips = {} \/ (Cardinality(flips) < MaxFlips /\ k \in ProbeBits)
  /\ buf' = FlipAt(buf, src.at, k)
  /\ flips' = flips \cup {k}
  /\ op' = "flip" /\ tgt' = 1 /\ arg' = NoArg /\ ret' = OB_SUCCESS
  /\ pre' = NoHdr /\ prepos' = 0
  /\ UNCHANGED <<hdr, gen, pos, src>>

(***************************************************************************)
(* Spec: the life of one header that is constructed, reset, generated,     *)
(* checked, and filled from bytes read from storage, whole or truncated,   *)
(* in any order.                                                           *)
(***************************************************************************)
Next ==
  \/ Construct(1)
  \/ Reset(1)
  \/ \E in \in GenInputs : Generate(1, in[1], in[2])
  \/ \E p \in Payloads : CheckIntegrity(1, p)
  \/ \E img \in WireImages : Receive(img)
  \/ \E n \in Lens : Deserialize(1, n, 0)

Spec == Init /\ [][Next]_vars

(***************************************************************************)
(* SpecPair: two headers with different histories, and copies between      *)
(* them.                                                                   *)
(***************************************************************************)
NextPair ==
  \/ \E i \in Hdrs : Construct(i)
  \/ \E i \in Hdrs : Reset(i)
  \/ \E i \in Hdrs, p \in {P1, P2}, scn \in SCNsOk : Generate(i, p, scn)
  \/ \E i \in Hdrs, j \in Hdrs : Assign(i, j)
  \/ \E img \in WireImages : Receive(img)
  \/ \E i \in Hdrs : Deserialize(i, MaxCap, 0)

SpecPair == Init /\ [][NextPair]_vars

(***************************************************************************)
(* SpecCodec: a writer (header 1) generates and serializes, a reader       *)
(* (header 2, freshly constructed) deserializes what is in the buffer,     *)
(* then both start over with new objects.                                  *)
(***************************************************************************)
\* both headers go out of scope and the buffer is released; new headers are
\* constructed
Restart ==
  /\ hdr' = [i \in Hdrs |-> LogEntryHeader]
  /\ gen' = [i \in Hdrs |-> NoGen]
  /\ buf' = NULL /\ pos' = 0 /\ src' = NoSrc /\ flips' = {}
  /\ op' = "construct" /\ tgt' = 1 /\ arg' = NoArg /\ ret' = OB_SUCCESS
  /\ pre' = NoHdr /\ prepos' = 0

NextCodec ==
  \/ Restart
  \/ \E in \in (PayloadsOk \X SCNsOk) \cup GenInputsHuge :
       op \in {"construct", "generate_header"} /\ Generate(1, in[1], in[2])
  \/ \E b \in OutBufs, n \in Lens, p \in Positions :
       op \in {"construct", "generate_header"} /\ Serialize(1, b, n, p)
  \/ \E img \in WireImages : op = "construct" /\ Receive(img)
  \/ \E n \in Lens, p \in Positions :
       op \in {"serialize", "receive"} /\ Deserialize(2, n, p)

SpecCodec == Init /\ [][NextCodec]_vars

(***************************************************************************)
(* SpecCorrupt: the serialized header is corrupted bit by bit before the   *)
(* reader deserializes it.                                                 *)
(***************************************************************************)
NextCorrupt ==
  \/ Restart
  \/ \E p \in {P1, P2} :
       op \in {"construct", "generate_header"} /\ Generate(1, p, Small64(1))
  \/ op = "generate_header" /\ Serialize(1, NewBuf(0), MaxCap, 0)
  \/ \E k \in HeaderBits : FlipBit(k)
  \/ op \in {"serialize", "flip"} /\ Deserialize(2, MaxCap, src.at)

SpecCorrupt == Init /\ [][NextCorrupt]_vars

(***************************************************************************)
(* The claims.                                                             *)
(***************************************************************************)
\* the six fields of two headers agree
SameFields(a, b) ==
  /\ a.magic_ = b.magic_ /\ a.version_ = b.version_
  /\ a.log_size_ = b.log_size_ /\ a.scn_ = b.scn_
  /\ a.data_checksum_ = b.data_checksum_ /\ a.flag_ = b.flag_

\* the last call was a deserialize, at the position of the serialized header,
\* of a buffer long enough to hold all of it
ReadBack ==
  /\ op = "deserialize" /\ src # NoSrc
  /\ prepos = src.at /\ ~arg.short

\* C1: round trip.  A header generated on a freshly constructed header from
\* any accepted payload and scn, serialized with room, deserializes into
\* another fresh header with OB_SUCCESS, the same six fields, and a true
\* check_header_integrity().
C1_RoundTrip ==
  (/\ ReadBack /\ flips = {}
   /\ src.gen # NoGen /\ src.gen.fresh
   /\ pre = LogEntryHeader)
    => (/\ ret = OB_SUCCESS
        /\ SameFields(hdr[tgt], src.hdr)
        /\ check_header_integrity(hdr[tgt]))

\* The round trip of C1 for payloads whose length fits the 32-bit log_size_.
RoundTripInRange ==
  (/\ ReadBack /\ flips = {}
   /\ src.gen # NoGen /\ src.gen.fresh
   /\ src.gen.payload \in PayloadsOk
   /\ pre = LogEntryHeader)
    => (/\ ret = OB_SUCCESS
        /\ SameFields(hdr[tgt], src.hdr)
        /\ check_header_integrity(hdr[tgt]))

\* C2: after every successful generate_header, from any prior state of the
\* header, bit 0 of flag_ equals the parity computed over the other fields
\* and flag_ with bit 0 cleared, and check_header_integrity() is true.
C2_GenerateSetsParity ==
  (op = "generate_header" /\ ret = OB_SUCCESS)
    => (/\ Bit0(hdr[tgt].flag_)
             = (IF get_header_parity_check_res_(hdr[tgt]) THEN 1 ELSE 0)
        /\ check_header_integrity(hdr[tgt]))

\* C3: corruption detection.  When an odd number of bits of the serialized
\* bytes of a validly generated header are flipped, deserialize fails with
\* OB_INVALID_DATA and leaves the position unchanged.
C3_OddFlipsDetected ==
  (/\ ReadBack
   /\ src.gen # NoGen /\ check_header_integrity(src.hdr)
   /\ Cardinality(flips) % 2 = 1)
    => (ret = OB_INVALID_DATA /\ pos = prepos)

\* C3 witness: three bits, flag bit 0 among them, were flipped in the bytes
\* of a valid generated header and the deserialize was refused.
C3_Witness ==
  /\ ReadBack
  /\ src.gen # NoGen /\ check_header_integrity(src.hdr)
  /\ Cardinality(flips) = 3 /\ 249 \in flips
  /\ ret = OB_INVALID_DATA

\* C4: check_integrity(payload, len) is true exactly when the payload is
\* non-null with len > 0, magic_ is MAGIC, flag bit 0 matches the recomputed
\* header parity and the payload's checksum equals data_checksum_; it
\* returns a boolean and leaves the header as it was.
C4_CheckIntegrityExact ==
  op = "check_integrity"
    => LET h == hdr[tgt]
           p == arg.payload
       IN  /\ ret \in BOOLEAN
           /\ ret = (/\ p.log_data # NULL
                     /\ ~LeZero64(p.data_len)
                     /\ h.magic_ = MAGIC
                     /\ Bit0(h.flag_)
                          = (IF get_header_parity_check_res_(h) THEN 1 ELSE 0)
                     /\ ob_crc64(p.log_data, p.data_len) = h.data_checksum_)
           /\ h = pre

\* C4 witness: a header that passes check_header_integrity() was checked
\* against a payload other than the one it was generated from, whose
\* checksum differs, and refused it.
C4_Witness ==
  /\ op = "check_integrity" /\ ret = FALSE
  /\ check_header_integrity(hdr[tgt])
  /\ arg.payload \in PayloadsOk
  /\ ob_crc64(arg.payload.log_data, arg.payload.data_len)
       # hdr[tgt].data_checksum_

\* C5 as claimed: deserialize of a buffer with fewer bytes from the position
\* than the encoded header, a length of 0 included, fails with
\* OB_BUF_NOT_ENOUGH and leaves the position unchanged.
C5_TruncationAsClaimed ==
  (op = "deserialize" /\ buf # NULL /\ arg.short)
    => (ret = OB_BUF_NOT_ENOUGH /\ pos = prepos)

\* C5 amended: such a deserialize fails with OB_BUF_NOT_ENOUGH when
\* data_len > 0 and with OB_INVALID_ARGUMENT when data_len <= 0, never with
\* OB_INVALID_DATA, and leaves the position unchanged.
C5_Truncation ==
  (op = "deserialize" /\ buf # NULL /\ arg.short)
    => (/\ ret = (IF arg.nonpos THEN OB_INVALID_ARGUMENT ELSE OB_BUF_NOT_ENOUGH)
        /\ pos = prepos)

\* C5 witness: some but not all of the header's bytes were there; fields
\* were decoded and the call ended with OB_BUF_NOT_ENOUGH.
C5_Witness ==
  /\ op = "deserialize" /\ buf # NULL
  /\ arg.short /\ ~arg.nonpos
  /\ hdr[tgt] # pre
  /\ ret = OB_BUF_NOT_ENOUGH /\ pos = prepos

\* C6 as claimed: serialize with capacity - position smaller than the
\* serialized size, capacity 0 included, fails with OB_BUF_NOT_ENOUGH and
\* leaves the position unchanged; when the header fits it succeeds and the
\* position advances by the serialized size.
C6_NoPartialWriteAsClaimed ==
  (op = "serialize" /\ buf # NULL)
    => IF arg.short
         THEN ret = OB_BUF_NOT_ENOUGH /\ pos = prepos
         ELSE ret = OB_SUCCESS
                /\ pos = prepos + get_serialize_size(hdr[tgt])

\* C6 amended: as claimed, but with a capacity <= 0 the failure is
\* OB_INVALID_ARGUMENT.
C6_NoPartialWrite ==
  (op = "serialize" /\ buf # NULL)
    => IF arg.short
         THEN /\ ret = (IF arg.nonpos THEN OB_INVALID_ARGUMENT
                                      ELSE OB_BUF_NOT_ENOUGH)
              /\ pos = prepos
         ELSE ret = OB_SUCCESS
                /\ pos = prepos + get_serialize_size(hdr[tgt])

\* C6 witness: the header did not fit, leading fields were written into the
\* buffer all the same, and the position stayed.
C6_Witness ==
  /\ op = "serialize" /\ buf # NULL /\ buf \notin OutBufs
  /\ arg.short /\ ~arg.nonpos
  /\ ret = OB_BUF_NOT_ENOUGH /\ pos = prepos

\* C7: generate_header with a null payload, a length <= 0 or an invalid scn
\* returns OB_INVALID_ARGUMENT and leaves all six fields as they were.
C7_RejectLeavesHeader ==
  (/\ op = "generate_header"
   /\ (arg.payload \in PayloadsBad \/ arg.scn = OB_INVALID_SCN_VAL))
    => (/\ ret = OB_INVALID_ARGUMENT
        /\ pre # NoHdr
        /\ SameFields(hdr[tgt], pre))

\* C7 witness: a populated header refused a generate_header call.
C7_Witness ==
  /\ op = "generate_header" /\ ret = OB_INVALID_ARGUMENT
  /\ arg.payload \in PayloadsBad
  /\ hdr[tgt].magic_ = MAGIC /\ hdr[tgt].flag_ # Zero64

\* C8: determinism.  Two headers last filled by successful generate_header
\* calls with the same payload and the same scn agree in all six fields.
C8_Determinism ==
  (/\ gen[1] # NoGen /\ gen[2] # NoGen
   /\ gen[1].payload = gen[2].payload /\ gen[1].scn = gen[2].scn)
    => SameFields(hdr[1], hdr[2])

\* C9: a newly constructed header and a header after reset() are in the
\* same sentinel state (magic 0, log_size -1, checksum 0, flag 0, scn reset)
\* in which is_valid() is false.
C9_Sentinel ==
  op \in {"construct", "reset"}
    => LET h == hdr[tgt]
       IN  /\ h.magic_ = 0 /\ h.log_size_ = -1
           /\ h.data_checksum_ = Zero64 /\ h.flag_ = Zero64
           /\ h.scn_ = SCN_reset
           /\ ~is_valid(h)

\* C10 as claimed: whenever check_integrity() returns true,
\* check_header_integrity() is true on that header.
C10_AcceptImpliesValidAsClaimed ==
  (op = "check_integrity" /\ ret = TRUE)
    => check_header_integrity(hdr[tgt])

\* C10 amended: whenever check_integrity() returns true, magic_ is MAGIC and
\* the parity bit matches, and check_header_integrity() is true exactly when
\* in addition log_size_ > 0 and the scn is valid.
C10_AcceptImpliesParity ==
  (op = "check_integrity" /\ ret = TRUE)
    => LET h == hdr[tgt]
       IN  /\ h.magic_ = MAGIC
           /\ check_header_checksum_(h)
           /\ check_header_integrity(h)
                = (h.log_size_ > 0 /\ SCN_is_valid(h.scn_))

\* C10 witness: check_integrity() accepted a payload on a header whose
\* log_size_ is not positive.
C10_Witness ==
  /\ op = "check_integrity" /\ ret = TRUE
  /\ hdr[tgt].log_size_ <= 0

====
